---- MODULE Spec2Model ----
(***************************************************************************)
(* A model of datalayer's schema nodes (specs.py), its errors              *)
(* (exceptions.py) and its subclass-keyed registry (utils.py).             *)
(*                                                                         *)
(* Python objects are records whose field k is the name of the object's    *)
(* class:                                                                  *)
(*   a type object      [k |-> "type", v |-> <name of the type>]           *)
(*   an int / a str     [k |-> "int", v |-> 1]   [k |-> "str", v |-> "a"]  *)
(*   a list / a tuple   [k |-> "list", v |-> <<items>>]                    *)
(*   a dict / a read-only mapping (types.MappingProxyType) whose content   *)
(*   is validated       [k |-> "dict", v |-> <function key -> value>]      *)
(*   a dict literal given as a schema description, whose order counts      *)
(*                      [k |-> "dict", items |-> << <<key, object>> >>]    *)
(*   a Spec node        [k |-> "Atom" | "Seq" | "Model" | "Map", spec |-> ]*)
(* The inner value of a Model is the sequence of its <<field, node>>       *)
(* pairs in declaration order (a dict keeps insertion order).              *)
(***************************************************************************)
EXTENDS Integers, Sequences, FiniteSets, TLC

VARIABLES node, built, value, before, out, op, data

vars == <<node, built, value, before, out, op, data>>

(* ------------------------------ bounds --------------------------------- *)

\* Longest list or tuple among the values validated.
MaxLen == 2
\* Deepest nesting of compound nodes built (an Atom has depth 0).
MaxDepth == 2
\* Most keys a registry under test holds.
MaxKeys == 2

(* --------------------------- Python objects ---------------------------- *)

Type(t) == [k |-> "type", v |-> t]
IntV(n) == [k |-> "int", v |-> n]
StrV(s) == [k |-> "str", v |-> s]
ListV(xs) == [k |-> "list", v |-> xs]
TupleV(xs) == [k |-> "tuple", v |-> xs]
DictV(f) == [k |-> "dict", v |-> f]
ProxyV(f) == [k |-> "mappingproxy", v |-> f]
DictLit(items) == [k |-> "dict", items |-> items]
Namespace(items) == [k |-> "SimpleNamespace", items |-> items]
None == [k |-> "NoneType", v |-> "None"]

\* The nodes, by the inner value each stores in self.spec: a type object, the
\* element node, the dict of the field nodes, the MapSpec namedtuple.
AtomNode(t) == [k |-> "Atom", spec |-> t]
SeqNode(n) == [k |-> "Seq", spec |-> n]
ModelNode(fields) == [k |-> "Model", spec |-> DictLit(fields)]
MapSpec(key, val) == [k |-> "MapSpec", v |-> <<key, val>>]
MapNode(key, val) == [k |-> "Map", spec |-> MapSpec(key, val)]
NoNode == [k |-> "NoneType", spec |-> "None"]

\* type(x): the class of an object.
TypeOf(x) == x.k

\* x.__mro__ of the types of the model.
Mro(t) ==
  CASE t = "object" -> <<"object">>
    [] t = "Container" -> <<"Container", "object">>
    [] t = "Sequence" -> <<"Sequence", "Reversible", "Collection", "Sized",
                           "Iterable", "Container", "object">>
    [] t = "Mapping" -> <<"Mapping", "Collection", "Sized", "Iterable",
                          "Container", "object">>
    [] t = "Parent" -> <<"Parent", "object">>
    [] t = "Child1" -> <<"Child1", "Parent", "object">>
    [] t = "Child2" -> <<"Child2", "Parent", "object">>
    [] t = "GrandChild1" -> <<"GrandChild1", "Child1", "Parent", "object">>
    [] t = "Spec" -> <<"Spec", "ABC", "object">>
    [] t = "Atom" -> <<"Atom", "Spec", "ABC", "object">>
    [] t = "CompoundSpec" -> <<"CompoundSpec", "Spec", "ABC", "object">>
    [] t \in {"Model", "Map", "Seq"} -> <<t, "CompoundSpec", "Spec", "ABC", "object">>
    [] t = "MapSpec" -> <<"MapSpec", "tuple", "object">>
    [] OTHER -> <<t, "object">>

\* The abstract base classes a type is a subclass of without inheriting
\* from them (collections.abc registers the builtin containers).
AbcOf(t) ==
  CASE t \in {"list", "tuple", "str", "MapSpec"} ->
         {"Sequence", "Reversible", "Collection", "Sized", "Iterable", "Container"}
    [] t \in {"dict", "mappingproxy"} ->
         {"Mapping", "Collection", "Sized", "Iterable", "Container"}
    [] OTHER -> {}

InSeq(x, s) == \E i \in 1..Len(s) : s[i] = x

\* issubclass(c, k)
issubclass(c, k) == InSeq(k, Mro(c)) \/ k \in AbcOf(c)

\* isinstance(x, k)
isinstance(x, k) == issubclass(TypeOf(x), k)

\* t.__hash__ is None: the types that define __eq__ and no __hash__.
HashIsNone(t) == t \in {"list", "dict", "Mapping"}

\* len(x) of a sized object.
PyLen(x) ==
  CASE x.k \in {"list", "tuple", "str", "MapSpec"} -> Len(x.v)
    [] x.k \in {"dict", "mappingproxy"} /\ "items" \in DOMAIN x -> Len(x.items)
    [] OTHER -> Cardinality(DOMAIN x.v)

(* ------------------------------ utils.py ------------------------------- *)

\* typename(x): x.__name__ of a type, type(x).__name__ of anything else.
typename(x) == IF x.k = "type" THEN x.v ELSE x.k

(* ---------------------------- exceptions.py ---------------------------- *)
\* (SubclassDict, which raises the builtin exceptions only, follows below.)


RECURSIVE JoinFrom(_, _)
JoinFrom(parts, i) ==
  IF i > Len(parts) THEN ""
  ELSE IF i = Len(parts) THEN parts[i]
  ELSE parts[i] \o ": " \o JoinFrom(parts, i + 1)

\* Error.join: the non-empty parts, joined by ": ".
join(parts) == JoinFrom(SelectSeq(parts, LAMBDA p : p # ""), 1)

\* SpecError.__init__(spec, *parts): stores its first argument as .spec and
\* the joined rest as the message.
SpecError(spec, parts) == [spec |-> spec, msg |-> join(parts)]

\* SpecError.wrong_type: the parts it hands to cls(spec, 'wrong type', ...).
wrong_type(parts, expected, actual) ==
  LET msg == IF actual # "" THEN "expected " \o expected \o ", got " \o actual
             ELSE "expected " \o expected
  IN <<"wrong type">> \o (IF expected # "" THEN parts \o <<msg>> ELSE parts)

\* SchemaError.__init__(spec, *parts) calls SpecError.__init__ with
\* 'invalid schema' in the place of spec.
SchemaError(self, parts) == SpecError("invalid schema", <<self>> \o parts)

\* (self is typename(spec), the class of the node that raises.)
\* ValidationError.__init__(spec, *parts) calls SpecError.__init__ with
\* 'invalid value for <class>' in the place of spec.
ValidationError(self, parts) == SpecError("invalid value for " \o self, parts)

NoErr == [spec |-> "", msg |-> ""]

(* The outcome of a call: st is "ok" or the class of the exception raised, *)
(* val the object returned, obj the argument object as the call left it    *)
(* (validate assigns into the mappings it is given), err the exception.    *)
Ok(val, obj) == [st |-> "ok", val |-> val, obj |-> obj, err |-> NoErr]
Raise(exc, err, obj) == [st |-> exc, val |-> None, obj |-> obj, err |-> err]
NoOut == Ok(None, None)

(* ------------------------- specs.py: validate -------------------------- *)

\* str(<generator>), what str(...) makes of the generator Seq.validate hands
\* to the class of its argument (the address in it varies from call to call).
GenRepr == "<generator object Seq.validate.<locals>.<genexpr>>"

\* The property base_type of a node.
base_type(self) ==
  CASE self.k = "Atom" -> self.spec.v
    [] self.k = "Seq" -> "Sequence"
    [] self.k \in {"Model", "Map"} -> "Mapping"

\* Spec.validate
SpecValidate(self, val) ==
  IF ~isinstance(val, base_type(self))
  THEN Raise("ValidationError",
             ValidationError(self.k, wrong_type(<<>>, "'" \o base_type(self) \o "'",
                                                "'" \o typename(val) \o "'")),
             val)
  ELSE Ok(val, val)

RECURSIVE validate(_, _)

\* The generator (self.spec.validate(item) for item in value), run to its end
\* or to the first item that raises: the items validated, the item objects as
\* that left them.
RECURSIVE SeqItems(_, _, _)
SeqItems(self, items, i) ==
  IF i > Len(items)
  THEN [st |-> "ok", vals |-> <<>>, objs |-> <<>>, err |-> NoErr]
  ELSE LET r == validate(self.spec, items[i]) IN
       IF r.st # "ok"
       THEN [st |-> r.st, vals |-> <<>>,
             objs |-> <<r.obj>> \o SubSeq(items, i + 1, Len(items)), err |-> r.err]
       ELSE LET rest == SeqItems(self, items, i + 1) IN
            [st |-> rest.st, vals |-> <<r.val>> \o rest.vals,
             objs |-> <<r.obj>> \o rest.objs, err |-> rest.err]

\* cls(<generator>) for cls = type(value): list and tuple run the generator,
\* str does not and returns its repr.
SeqRebuild(self, val) ==
  IF val.k = "str" THEN Ok(StrV(GenRepr), val)
  ELSE LET r == SeqItems(self, val.v, 1) IN
       IF r.st = "ok"
       THEN Ok([k |-> val.k, v |-> r.vals], [k |-> val.k, v |-> r.objs])
       ELSE Raise(r.st, r.err, [k |-> val.k, v |-> r.objs])

\* Seq.validate
SeqValidate(self, val) ==
  LET b == SpecValidate(self, val) IN
  IF b.st # "ok" THEN b ELSE SeqRebuild(self, val)

\* value[field] = x: a dict takes it, a read-only mapping raises TypeError.
setitem(val, key, x) ==
  IF val.k = "dict"
  THEN Ok(None, [val EXCEPT !.v[key] = x])
  ELSE Raise("TypeError",
             [spec |-> "",
              msg |-> "'" \o val.k \o "' object does not support item assignment"],
             val)

\* The loop of Model.validate over self.spec.items(), from its i-th field on.
RECURSIVE ModelFields(_, _, _)
ModelFields(self, val, i) ==
  IF i > Len(self.spec.items) THEN Ok(val, val)
  ELSE LET field == self.spec.items[i][1]
           field_spec == self.spec.items[i][2] IN
       IF field \notin DOMAIN val.v
       THEN Raise("ValidationError",
                  ValidationError(self.k, <<"field '" \o field.v \o "' not found">>),
                  val)
       ELSE LET r == validate(field_spec, val.v[field])
                held == [val EXCEPT !.v[field] = r.obj] IN
            IF r.st # "ok" THEN Raise(r.st, r.err, held)
            ELSE LET s == setitem(held, field, r.val) IN
                 IF s.st # "ok" THEN s ELSE ModelFields(self, s.obj, i + 1)

\* The two length checks of Model.validate: the error raised, or NoErr.
ModelLenCheck(self, val) ==
  LET want == ToString(Len(self.spec.items))
      got == ToString(PyLen(val)) IN
  IF PyLen(val) > Len(self.spec.items)
  THEN ValidationError(self.k, <<"too many items" \o "expected " \o want \o ", got " \o got>>)
  ELSE IF PyLen(val) < Len(self.spec.items)
  THEN ValidationError(self.k, <<"too few items", "expected " \o want \o ", got " \o got>>)
  ELSE NoErr

\* Model.validate
ModelValidate(self, val) ==
  LET b == SpecValidate(self, val) IN
  IF b.st # "ok" THEN b
  ELSE IF ModelLenCheck(self, val) # NoErr
  THEN Raise("ValidationError", ModelLenCheck(self, val), val)
  ELSE ModelFields(self, val, 1)

\* Map.validate: Map defines none, so it is Spec.validate.
MapValidate(self, val) == SpecValidate(self, val)

\* node.validate(value), by the class of the node.
validate(self, val) ==
  CASE self.k = "Atom" -> SpecValidate(self, val)
    [] self.k = "Seq" -> SeqValidate(self, val)
    [] self.k = "Model" -> ModelValidate(self, val)
    [] self.k = "Map" -> MapValidate(self, val)

\* (A Model.validate that pops the fields of self.spec as it checks them.)
SpecAfterValidatePopping(self, val) ==
  IF self.k = "Model" /\ ModelValidate(self, val).st = "ok" THEN DictLit(<<>>) ELSE self.spec
\* What a call of validate leaves in self.spec: no validate assigns to it.
SpecAfterValidate(self, val) == self.spec

(* ----------------------- specs.py: construction ------------------------ *)

SchemaRaise(self, parts) == Raise("SchemaError", SchemaError(self, parts), None)

\* Atom.validate_spec, and so Atom(spec).
NewAtom(spec) ==
  LET is_type == issubclass(TypeOf(spec), "type")
      is_spec == IF is_type THEN issubclass(spec.v, "Spec") ELSE isinstance(spec, "Spec") IN
  IF is_spec THEN SchemaRaise("Atom", <<"cannot be a Spec">>)
  ELSE IF ~is_type
  THEN SchemaRaise("Atom", wrong_type(<<>>, "'type'", "'" \o typename(spec) \o "'"))
  ELSE Ok(AtomNode(spec), None)

\* CompoundSpec._validate_spec_or_type, called by a node of class self.
validate_spec_or_type(self, val) ==
  IF isinstance(val, "type") THEN NewAtom(val)
  ELSE IF ~isinstance(val, "Spec")
  THEN SchemaRaise(self, wrong_type(<<>>, "Spec or type", "'" \o typename(val) \o "'"))
  ELSE Ok(val, None)

\* The loop of Model.validate_spec over spec.items(): validated_spec so far
\* is acc.
RECURSIVE ModelSpecItems(_, _, _)
ModelSpecItems(items, i, acc) ==
  IF i > Len(items) THEN Ok(ModelNode(acc), None)
  ELSE IF TypeOf(items[i][1]) # "str" THEN SchemaRaise("Model", <<"keys must be str">>)
  ELSE LET r == validate_spec_or_type("Model", items[i][2]) IN
       IF r.st # "ok" THEN r
       ELSE ModelSpecItems(items, i + 1, Append(acc, <<items[i][1], r.val>>))

\* spec.__dict__: the attributes of an object that has them.
HasDict(x) == x.k = "SimpleNamespace" \/ isinstance(x, "Spec")
ObjDict(x) == IF x.k = "SimpleNamespace" THEN x.items ELSE <<<<StrV("spec"), x.spec>>>>

\* Model.validate_spec, and so Model(spec).
NewModel(spec) ==
  IF isinstance(spec, "type")
  THEN SchemaRaise("Model", wrong_type(<<>>, "Mapping or object",
                                       "'" \o typename(spec) \o "'"))
  ELSE IF isinstance(spec, "Mapping") THEN ModelSpecItems(spec.items, 1, <<>>)
  ELSE IF HasDict(spec) THEN ModelSpecItems(ObjDict(spec), 1, <<>>)
  ELSE Raise("AttributeError",
             [spec |-> "", msg |-> "'" \o spec.k \o "' object has no attribute '__dict__'"],
             None)

\* Seq.validate_spec, and so Seq(spec).
NewSeq(spec) ==
  LET r == validate_spec_or_type("Seq", spec) IN
  IF r.st # "ok" THEN r ELSE Ok(SeqNode(r.val), None)

\* The items of a sequence: a str of the model is made of the letter a.
ItemsOf(x) == IF x.k = "str" THEN [i \in 1..Len(x.v) |-> StrV("a")] ELSE x.v

\* (The hashability check left out.)
KeyUnhashableSkipped(key_spec) == FALSE
\* The hashability check of Map.validate_spec on the key node.
KeyUnhashable(key_spec) == HashIsNone(base_type(key_spec))

\* Map.validate_spec, and so Map(spec).
NewMap(spec) ==
  IF ~(isinstance(spec, "Sequence") /\ PyLen(spec) = 2)
  THEN SchemaRaise("Map", wrong_type(<<>>, "sequence with 2 items",
                                     "'" \o typename(spec) \o "'"))
  ELSE LET key_spec == validate_spec_or_type("Map", ItemsOf(spec)[1]) IN
       IF key_spec.st # "ok" THEN key_spec
       ELSE LET val_spec == validate_spec_or_type("Map", ItemsOf(spec)[2]) IN
            IF val_spec.st # "ok" THEN val_spec
            ELSE IF KeyUnhashable(key_spec.val)
            THEN SchemaRaise("Map", <<"unhashable Spec for key",
                                      "'" \o typename(key_spec.val) \o "'">>)
            ELSE Ok(MapNode(key_spec.val, val_spec.val), None)

(* ------------------------ specs.py: navigation ------------------------- *)

\* Spec.inner(), and Model.inner() called with no item.
inner(self) == self.spec

RECURSIVE Unwrap(_)
\* (Unwrap with an if in the place of the while: one level only.)
UnwrapOnce(x) == IF isinstance(x, "Spec") THEN inner(x) ELSE x
\* The while loop of innermost.
Unwrap(x) == IF isinstance(x, "Spec") THEN Unwrap(inner(x)) ELSE x

\* Spec.innermost
innermost(self) == Unwrap(inner(self))

(* ----------------------- utils.py: SubclassDict ------------------------ *)
(* self.data is an OrderedDict: the sequence of its <<key, value>> pairs   *)
(* in insertion order.                                                     *)

KeysOf(d) == [i \in 1..Len(d) |-> d[i][1]]
HasKey(d, key) == \E i \in 1..Len(d) : d[i][1] = key
Lookup(d, key) == d[CHOOSE i \in 1..Len(d) : d[i][1] = key][2]

\* SubclassDict.__validate_key
KeyIsType(key) == isinstance(key, "type")
NotAType == [spec |-> "", msg |-> "not a type"]

\* tuple.index(x) from 0; -1 stands for the ValueError of a missing x.
IndexIn(s, x) ==
  IF InSeq(x, s) THEN (CHOOSE i \in 1..Len(s) : s[i] = x /\ \A j \in 1..(i - 1) : s[j] # x) - 1
  ELSE -1

\* The loop over matches of __getitem__ from the i-th match on, with min_idx
\* and best_match as they stand (None is -1 and the object None).
RECURSIVE BestMatch(_, _, _, _, _)
BestMatch(matches, mro, i, min_idx, best_match) ==
  IF i > Len(matches) THEN best_match
  ELSE LET idx == IndexIn(mro, matches[i].v) IN
       IF idx = -1 THEN BestMatch(matches, mro, i + 1, min_idx, best_match)
       ELSE IF min_idx = -1 \/ idx < min_idx
       THEN BestMatch(matches, mro, i + 1, idx, matches[i])
       ELSE BestMatch(matches, mro, i + 1, min_idx, best_match)

\* self.data[key] of the underlying dict.
DataGet(d, key) ==
  IF HasKey(d, key) THEN Ok(Lookup(d, key), None)
  ELSE Raise("KeyError", [spec |-> "", msg |-> typename(key)], None)

\* SubclassDict.__getitem__
getitem(d, item) ==
  IF ~KeyIsType(item) THEN Raise("TypeError", NotAType, None)
  ELSE LET matches == SelectSeq(KeysOf(d), LAMBDA key : issubclass(item.v, key.v))
           mro == SubSeq(Mro(item.v), 1, Len(Mro(item.v)) - 1) IN
       IF Len(matches) = 1 THEN DataGet(d, matches[1])
       ELSE IF Len(matches) > 1 THEN DataGet(d, BestMatch(matches, mro, 1, -1, None))
       ELSE Raise("KeyError", [spec |-> "", msg |-> typename(item)], None)

\* Mapping.get, which SubclassDict inherits: the default on a KeyError.
get(d, item, default) ==
  LET r == getitem(d, item) IN
  IF r.st = "KeyError" THEN Ok(default, None) ELSE r

\* SubclassDict.__setitem__: the data it leaves.
setdata(d, key, val) ==
  IF HasKey(d, key)
  THEN [i \in 1..Len(d) |-> IF d[i][1] = key THEN <<key, val>> ELSE d[i]]
  ELSE Append(d, <<key, val>>)

\* SubclassDict.__delitem__: the data it leaves.
deldata(d, key) == SelectSeq(d, LAMBDA kv : kv[1] # key)

(* ----------------------- specs.py: from_python ------------------------- *)

\* TYPE_TO_SPEC: {spec.base_type: spec for spec in (Model, Seq)}
TYPE_TO_SPEC == <<<<Type("Mapping"), Type("Model")>>, <<Type("Sequence"), Type("Seq")>>>>

\* spec_cls(data) for the class from_python picked.
Construct(spec_cls, raw) ==
  CASE spec_cls = "Atom" -> NewAtom(raw)
    [] spec_cls = "Seq" -> NewSeq(raw)
    [] spec_cls = "Model" -> NewModel(raw)
    [] spec_cls = "Map" -> NewMap(raw)

\* The class from_python picks for data.
SpecClassFor(raw) == get(TYPE_TO_SPEC, Type(TypeOf(raw)), Type("Atom"))

\* from_python
from_python(raw) == Construct(SpecClassFor(raw).val.v, raw)

(* ------------------------- the inputs, bounded ------------------------- *)

SeqsOver(S) == UNION {[1..n -> S] : n \in 0..MaxLen}
MapsOver(K, S) == UNION {[D -> S] : D \in SUBSET K}

Scalars == {IntV(1), StrV("a")}
Names == {StrV("name"), StrV("age")}

FlatLists == {ListV(xs) : xs \in SeqsOver(Scalars)}
FlatTuples == {TupleV(xs) : xs \in SeqsOver(Scalars)}
FlatDicts == {DictV(f) : f \in MapsOver(Names, Scalars)}
FlatProxies == {ProxyV(f) : f \in MapsOver(Names, Scalars)}
\* The records that hold every name.
FullDicts == {DictV(f) : f \in [Names -> Scalars]}
\* Lists of records and of scalars.
NestedLists == {ListV(xs) : xs \in SeqsOver(FullDicts \cup Scalars)}
\* Records whose name is a scalar, a list or a record, and whose age is a
\* scalar.
NestedDicts ==
  {DictV(f) : f \in {g \in MapsOver(Names, Scalars \cup FlatLists \cup FullDicts) :
                       StrV("age") \in DOMAIN g => g[StrV("age")] \in Scalars}}

\* The values handed to validate.
Values ==
  Scalars \cup FlatLists \cup FlatTuples \cup FlatDicts \cup FlatProxies
          \cup NestedLists \cup NestedDicts

RECURSIVE Depth(_)
Max(a, b) == IF a >= b THEN a ELSE b
RECURSIVE MaxDepthOf(_, _)
MaxDepthOf(items, i) ==
  IF i > Len(items) THEN 0 ELSE Max(Depth(items[i][2]), MaxDepthOf(items, i + 1))
\* How deep the compound nodes of a node nest.
Depth(n) ==
  CASE n.k = "Seq" -> 1 + Depth(n.spec)
    [] n.k = "Model" -> 1 + MaxDepthOf(n.spec.items, 1)
    [] n.k = "Map" -> 1 + Max(Depth(n.spec.v[1]), Depth(n.spec.v[2]))
    [] OTHER -> 0

ChildTypes == {Type("int"), Type("str")}
\* The node built last, while it may still be nested.
Child == IF node # NoNode /\ Depth(node) < MaxDepth THEN {node} ELSE {}
\* A few objects that are neither a type nor a node.
Junk == {IntV(1), StrV("aa")}

\* The descriptions handed to Atom(...).
AtomRaws ==
  {Type(t) : t \in {"int", "str", "list", "Atom", "Model"}} \cup Junk \cup Child

\* The descriptions handed to Seq(...).
SeqRaws == ChildTypes \cup Child \cup Junk

\* The field mappings of types alone, in either order of declaration.
FlatFields ==
  {<<>>} \cup {<<<<f, t>>>> : f \in Names, t \in ChildTypes}
         \cup {<<<<f, t>>, <<g, u>>>> : f \in Names, g \in Names, t \in ChildTypes, u \in ChildTypes}
\* The field mappings that nest node c.
NestFields(c) == {<<<<StrV("name"), c>>, <<StrV("age"), Type("int")>>>>}
\* The field mappings no Model takes.
BadFields ==
  {<<<<IntV(1), Type("int")>>>>, <<<<StrV("name"), IntV(1)>>>>,
   <<<<StrV("name"), Type("Atom")>>>>}

\* The descriptions handed to Model(...).
ModelRaws ==
  {DictLit(fs) : fs \in {x \in FlatFields : Len(x) < 2 \/ x[1][1] # x[2][1]}}
    \cup {DictLit(fs) : fs \in UNION {NestFields(c) : c \in Child}}
    \cup {DictLit(fs) : fs \in BadFields}
    \cup {Namespace(<<<<StrV("name"), Type("str")>>>>), Type("dict"), IntV(1)}

\* The descriptions handed to Map(...).
MapRaws ==
  {TupleV(<<a, b>>) : a \in ChildTypes \cup {Type("list"), Type("dict"), Type("Atom")},
                      b \in ChildTypes \cup {Type("Model")}}
    \cup {TupleV(<<a, b>>) : a \in {Type("str")}, b \in Child}
    \cup {ListV(<<Type("int"), Type("dict")>>), TupleV(<<Type("int")>>),
          TupleV(<<Type("int"), Type("str"), Type("int")>>),
          StrV("aa"), IntV(1), DictLit(<<<<StrV("name"), Type("int")>>>>)}

\* The objects handed to from_python.
PythonRaws ==
  {DictLit(<<<<StrV("name"), Type("str")>>>>), DictLit(<<<<StrV("name"), IntV(1)>>>>),
   DictLit(<<>>), ListV(<<Type("int")>>), ListV(<<>>), TupleV(<<Type("int"), Type("str")>>),
   StrV("aa"), IntV(1), Type("int"), None}
    \cup Child

(* ----------------------------- the actions ----------------------------- *)

Init ==
  /\ node = NoNode
  /\ built = NoNode
  /\ value = None
  /\ before = None
  /\ out = NoOut
  /\ op = "init"
  /\ data = <<>>

\* A constructor returned the node now held, or raised and left none.
Constructed(name, raw, r) ==
  /\ op \in {"init", "Atom", "Seq", "Model", "Map", "from_python", "innermost"}
  /\ op' = name
  /\ out' = r
  /\ node' = IF r.st = "ok" THEN r.val ELSE NoNode
  /\ built' = node'
  /\ value' = None
  /\ before' = raw
  /\ UNCHANGED data

\* Atom(raw), Seq(raw), Model(raw), Map(raw), from_python(raw); before holds
\* the argument of the last call.
MakeAtom == \E raw \in AtomRaws : Constructed("Atom", raw, NewAtom(raw))
MakeSeq == \E raw \in SeqRaws : Constructed("Seq", raw, NewSeq(raw))
MakeModel == \E raw \in ModelRaws : Constructed("Model", raw, NewModel(raw))
MakeMap == \E raw \in MapRaws : Constructed("Map", raw, NewMap(raw))
FromPython == \E raw \in PythonRaws : Constructed("from_python", raw, from_python(raw))

\* node.validate(v) on a fresh value v.
Validate ==
  /\ node # NoNode
  /\ op \in {"Atom", "Seq", "Model", "Map", "from_python"}
  /\ \E v \in Values :
       /\ out' = validate(node, v)
       /\ node' = [node EXCEPT !.spec = SpecAfterValidate(node, v)]
       /\ before' = v
  /\ value' = out'.obj
  /\ op' = "validate"
  /\ UNCHANGED <<built, data>>

\* node.validate(value) on the object the last call was given.
Revalidate ==
  /\ op \in {"validate", "revalidate"}
  /\ out' = validate(node, value)
  /\ node' = [node EXCEPT !.spec = SpecAfterValidate(node, value)]
  /\ before' = value
  /\ value' = out'.obj
  /\ op' = "revalidate"
  /\ UNCHANGED <<built, data>>

\* node.innermost()
Innermost ==
  /\ node # NoNode
  /\ op \in {"Atom", "Seq", "Model", "Map", "from_python"}
  /\ out' = Ok(innermost(node), None)
  /\ op' = "innermost"
  /\ before' = None
  /\ UNCHANGED <<node, built, value, data>>

Next == MakeAtom \/ MakeSeq \/ MakeModel \/ MakeMap \/ FromPython
        \/ Validate \/ Revalidate \/ Innermost

Spec == Init /\ [][Next]_vars

(* ------------------------ the registry under test ---------------------- *)

RegTypes == {"Parent", "Child1", "Child2", "GrandChild1", "Container", "Sequence", "list"}
Handlers == {StrV("x"), StrV("y")}
\* The types looked up.
QueryTypes == RegTypes \cup {"int", "tuple"}

Looked(name, key, r) ==
  /\ op' = name
  /\ out' = r
  /\ before' = key
  /\ UNCHANGED <<node, built, value>>

\* d[key] = val, also with a key that is no type
SetItem ==
  \E key \in {Type(t) : t \in RegTypes} \cup {IntV(1)}, val \in Handlers :
    IF ~KeyIsType(key)
    THEN Looked("setitem", key, Raise("TypeError", NotAType, None)) /\ UNCHANGED data
    ELSE /\ HasKey(data, key) \/ Len(data) < MaxKeys
         /\ Looked("setitem", key, NoOut)
         /\ data' = setdata(data, key, val)

\* del d[key]
DelItem ==
  \E key \in {Type(t) : t \in RegTypes} :
    /\ Looked("delitem", key, DataGet(data, key))
    /\ data' = IF HasKey(data, key) THEN deldata(data, key) ELSE data

\* d[item]
GetItem ==
  \E item \in {Type(t) : t \in QueryTypes} \cup {IntV(1)} :
    Looked("getitem", item, getitem(data, item)) /\ UNCHANGED data

\* d.get(item)
Get ==
  \E item \in {Type(t) : t \in QueryTypes} :
    Looked("get", item, get(data, item, None)) /\ UNCHANGED data

RegNext == SetItem \/ DelItem \/ GetItem \/ Get

RegistrySpec == Init /\ [][RegNext]_vars

(* ------------------------------ the claims ----------------------------- *)

Validated == op \in {"validate", "revalidate"}
Passes(n, v) == validate(n, v).st = "ok"
FieldsOf(n) == n.spec.items

\* v is a mapping with exactly len(F) entries, holds every field of F, and
\* each v[field] passes the field's node.
FitsModel(n, v) ==
  /\ isinstance(v, "Mapping")
  /\ PyLen(v) = Len(FieldsOf(n))
  /\ \A i \in 1..Len(FieldsOf(n)) :
       /\ FieldsOf(n)[i][1] \in DOMAIN v.v
       /\ Passes(FieldsOf(n)[i][2], v.v[FieldsOf(n)[i][1]])

\* C1: Model(F).validate(v) succeeds if and only if v is a mapping with
\* exactly len(F) entries that holds every field of F with a value passing
\* the field's node; a mapping with one entry more or fewer raises
\* ValidationError.
C1_ModelValidateIff ==
  (Validated /\ node.k = "Model") =>
    /\ (out.st = "ok") <=> FitsModel(node, before)
    /\ (isinstance(before, "Mapping")
          /\ PyLen(before) \in {Len(FieldsOf(node)) + 1, Len(FieldsOf(node)) - 1})
        => out.st = "ValidationError"

\* C1, for the mappings that take item assignment: it holds of every dict.
C1_OnDicts ==
  (Validated /\ node.k = "Model" /\ before.k # "mappingproxy") =>
    ((out.st = "ok") <=> FitsModel(node, before))

\* C2: Seq(E).validate(s), for a sequence s whose elements all pass E,
\* returns a sequence of the class of s that is equal to s.
C2_SeqReturnsEqual ==
  (Validated /\ node.k = "Seq" /\ isinstance(before, "Sequence")
     /\ \A i \in 1..PyLen(before) : Passes(node.spec, ItemsOf(before)[i]))
  => (out.st = "ok" /\ out.val.k = before.k /\ out.val = before)

\* C3: Map((K, V)).validate(m) raises ValidationError when a key of m fails
\* the key node or a value of m fails the value node, and otherwise returns
\* the mapping of the validated pairs, whatever the number of entries.
C3_MapValidatesEntries ==
  (Validated /\ node.k = "Map" /\ isinstance(before, "Mapping")) =>
    LET key_spec == node.spec.v[1]
        val_spec == node.spec.v[2]
        good == \A key \in DOMAIN before.v :
                  Passes(key_spec, key) /\ Passes(val_spec, before.v[key])
    IN IF good THEN out.st = "ok" /\ out.val.k = before.k
                    /\ out.val.v = [key \in DOMAIN before.v |->
                                      validate(val_spec, before.v[key]).val]
       ELSE out.st = "ValidationError"

\* The first index (from 1) of xs whose item fails node n; 0 when none fails.
FirstFailing(n, xs) ==
  IF \E i \in 1..Len(xs) : ~Passes(n, xs[i])
  THEN CHOOSE i \in 1..Len(xs) : ~Passes(n, xs[i]) /\ \A j \in 1..(i - 1) : Passes(n, xs[j])
  ELSE 0
\* The first field (from 1) of Model n whose value in v fails its node; 0 when
\* none fails.
FirstFailingField(n, v) ==
  IF \E i \in 1..Len(FieldsOf(n)) : ~Passes(FieldsOf(n)[i][2], v.v[FieldsOf(n)[i][1]])
  THEN CHOOSE i \in 1..Len(FieldsOf(n)) :
         /\ ~Passes(FieldsOf(n)[i][2], v.v[FieldsOf(n)[i][1]])
         /\ \A j \in 1..(i - 1) : Passes(FieldsOf(n)[j][2], v.v[FieldsOf(n)[j][1]])
  ELSE 0

\* C4: when the element at index i of a Seq, or a field of a Model, fails,
\* the ValidationError raised carries the index or the field name before the
\* inner cause: it is more than the error the element or the field value
\* raises when validated on its own.
C4_ErrorCarriesContext ==
  (op = "validate" /\ out.st = "ValidationError") =>
    /\ (node.k = "Seq" /\ before.k \in {"list", "tuple"}
          /\ FirstFailing(node.spec, before.v) # 0)
        => out.err # validate(node.spec, before.v[FirstFailing(node.spec, before.v)]).err
    /\ (node.k = "Model" /\ isinstance(before, "Mapping")
          /\ PyLen(before) = Len(FieldsOf(node))
          /\ (\A i \in 1..Len(FieldsOf(node)) : FieldsOf(node)[i][1] \in DOMAIN before.v)
          /\ FirstFailingField(node, before) # 0)
        => LET f == FieldsOf(node)[FirstFailingField(node, before)] IN
           out.err # validate(f[2], before.v[f[1]]).err

\* v satisfies node n exactly: an instance of the Atom's type, a sequence of
\* items that satisfy the element node, a mapping of just the fields, each
\* satisfying its node.
RECURSIVE Satisfies(_, _)
Satisfies(n, v) ==
  CASE n.k = "Atom" -> isinstance(v, n.spec.v)
    [] n.k = "Seq" -> /\ isinstance(v, "Sequence")
                      /\ \A i \in 1..PyLen(v) : Satisfies(n.spec, ItemsOf(v)[i])
    [] n.k = "Model" -> /\ isinstance(v, "Mapping")
                        /\ DOMAIN v.v = {FieldsOf(n)[i][1] : i \in 1..Len(FieldsOf(n))}
                        /\ \A i \in 1..Len(FieldsOf(n)) :
                             Satisfies(FieldsOf(n)[i][2], v.v[FieldsOf(n)[i][1]])
    [] n.k = "Map" -> /\ isinstance(v, "Mapping")
                      /\ \A key \in DOMAIN v.v :
                           Satisfies(n.spec.v[1], key) /\ Satisfies(n.spec.v[2], v.v[key])

\* No Map node in the tree of n.
RECURSIVE MapFree(_)
MapFree(n) ==
  CASE n.k = "Seq" -> MapFree(n.spec)
    [] n.k = "Model" -> \A i \in 1..Len(FieldsOf(n)) : MapFree(FieldsOf(n)[i][2])
    [] n.k = "Map" -> FALSE
    [] OTHER -> TRUE

\* C5: round trip: Model(F).validate(v), for fields that are Atom, Seq or
\* Model nodes and a v that satisfies F exactly, returns a value equal to v as
\* it was before the call.
C5_RoundTrip ==
  (op = "validate" /\ node.k = "Model" /\ MapFree(node) /\ Satisfies(node, before))
  => (out.st = "ok" /\ out.val = before)

\* In a v that satisfies n, every sequence a Seq node meets is a list or a
\* tuple and every mapping a Model node meets is a dict.
RECURSIVE Plain(_, _)
Plain(n, v) ==
  CASE n.k = "Seq" -> /\ v.k \in {"list", "tuple"}
                      /\ \A i \in 1..Len(v.v) : Plain(n.spec, v.v[i])
    [] n.k = "Model" -> /\ v.k = "dict"
                        /\ \A i \in 1..Len(FieldsOf(n)) :
                             Plain(FieldsOf(n)[i][2], v.v[FieldsOf(n)[i][1]])
    [] OTHER -> TRUE

\* C5, where no Seq node meets a str and no Model node a read-only mapping:
\* there the round trip holds.
C5_OnPlainValues ==
  (op = "validate" /\ node.k = "Model" /\ MapFree(node) /\ Satisfies(node, before)
     /\ Plain(node, before))
  => (out.st = "ok" /\ out.val = before)

\* C7: from_python(data) returns a node: a Model for a mapping, a Seq for a
\* sequence, an Atom for anything else.
C7_FromPythonReturnsNode ==
  op = "from_python" =>
    /\ out.st = "ok"
    /\ out.val.k = (IF isinstance(before, "Mapping") THEN "Model"
                    ELSE IF isinstance(before, "Sequence") THEN "Seq"
                    ELSE "Atom")

\* C6: in a registry that holds keys A and B, B a subclass of A, the lookup
\* of a type that is a subclass of both returns B's value, whatever the order
\* of insertion; the lookup of a type that is a subclass of no key raises
\* KeyError.
C6_NearestAncestorWins ==
  (op = "getitem" /\ KeyIsType(before)) =>
    /\ \A i \in 1..Len(data), j \in 1..Len(data) :
         (Len(data) = 2 /\ i # j
            /\ issubclass(data[j][1].v, data[i][1].v)
            /\ issubclass(before.v, data[i][1].v)
            /\ issubclass(before.v, data[j][1].v))
         => out = Ok(data[j][2], None)
    /\ (\A i \in 1..Len(data) : ~issubclass(before.v, data[i][1].v))
       => out.st = "KeyError"

\* C6, for a lookup of a type that inherits from B: there B's value is
\* returned.
C6_OnInheritedKeys ==
  (op = "getitem" /\ KeyIsType(before)) =>
    \A i \in 1..Len(data), j \in 1..Len(data) :
      (Len(data) = 2 /\ i # j
         /\ issubclass(data[j][1].v, data[i][1].v)
         /\ InSeq(data[j][1].v, Mro(before.v)))
      => out = Ok(data[j][2], None)

\* The node the chain of element nodes from n ends in: the first node that
\* is not a Seq.
RECURSIVE ChainEnd(_)
ChainEnd(n) == IF n.k = "Seq" THEN ChainEnd(n.spec) ELSE n

\* C8 as stated: innermost() of a nesting of Seq, Model and Atom nodes returns
\* a concrete type and never a node.
C8_InnermostIsType ==
  (op = "innermost" /\ MapFree(node)) =>
    (out.val.k = "type" /\ ~isinstance(out.val, "Spec"))

\* C8 as amended: innermost() of a nesting of Seq, Model and Atom nodes never
\* returns a node: it returns the type of the Atom the chain of element nodes
\* ends in, and the field mapping of the Model when the chain ends in a Model.
C8_InnermostIsFirstNonNode ==
  (op = "innermost" /\ MapFree(node)) =>
    /\ ~isinstance(out.val, "Spec")
    /\ ChainEnd(node).k = "Atom" => (out.val.k = "type" /\ out.val = ChainEnd(node).spec)
    /\ ChainEnd(node).k = "Model" => (out.val.k = "dict" /\ out.val = ChainEnd(node).spec)

\* innermost() went through a Seq node to the fields of a Model.
C8_Witness ==
  /\ op = "innermost"
  /\ node.k = "Seq" /\ node.spec.k = "Model"
  /\ out.val = node.spec.spec
  /\ out.val.k = "dict"

\* C9: after validate calls, returned or raised, the inner value of the node
\* is what construction stored, and validating again the object the call was
\* given returns again, or raises the same error again.
C9_NodeUnchanged ==
  Validated =>
    /\ node = built
    /\ validate(node, value).st = out.st
    /\ validate(node, value).err = out.err

\* A Model was validated twice on a value it assigned into, and once raised.
C9_Witness ==
  /\ op = "revalidate"
  /\ node.k = "Model" /\ Len(FieldsOf(node)) = 2 /\ FieldsOf(node)[1][2].k = "Seq"
  /\ out.st = "ValidationError"
  /\ node = built

\* The argument of Map(...) was a tuple of two type objects K and V.
PairOfTypes ==
  /\ op = "Map" /\ before.k = "tuple" /\ Len(before.v) = 2
  /\ before.v[1].k = "type" /\ before.v[2].k = "type"

\* C10 as stated: Map((K, V)) raises SchemaError when K is unhashable, and for
\* every other pair of bare types returns the node that stores
\* (Atom(K), Atom(V)); a description that is no sequence of 2 items raises
\* SchemaError.
C10_MapSpecOfTypes ==
  /\ PairOfTypes =>
       IF HashIsNone(before.v[1].v) THEN out.st = "SchemaError"
       ELSE out.st = "ok" /\ node.spec = MapSpec(AtomNode(before.v[1]), AtomNode(before.v[2]))
  /\ (op = "Map" /\ ~(isinstance(before, "Sequence") /\ PyLen(before) = 2))
     => out.st = "SchemaError"

\* C10 as amended: Map((K, V)) raises SchemaError when K is unhashable or
\* when K or V is a Spec class, and for every other pair of bare types
\* returns the node that stores (Atom(K), Atom(V)); a description that is no
\* sequence of 2 items raises SchemaError.
C10_MapSpecOfPlainTypes ==
  /\ PairOfTypes =>
       IF HashIsNone(before.v[1].v)
          \/ issubclass(before.v[1].v, "Spec") \/ issubclass(before.v[2].v, "Spec")
       THEN out.st = "SchemaError"
       ELSE out.st = "ok" /\ node.spec = MapSpec(AtomNode(before.v[1]), AtomNode(before.v[2]))
  /\ (op = "Map" /\ ~(isinstance(before, "Sequence") /\ PyLen(before) = 2))
     => out.st = "SchemaError"

\* Map((list, int)) was refused for its unhashable key.
C10_Witness ==
  /\ PairOfTypes
  /\ before.v = <<Type("list"), Type("int")>>
  /\ out.st = "SchemaError"
  /\ out.err.msg = "Map: unhashable Spec for key: 'Atom'"

\* Field i of Model n is absent from v, or its value in v fails its node.
FieldBad(n, v, i) ==
  LET f == FieldsOf(n)[i] IN
  f[1] \notin DOMAIN v.v \/ ~Passes(f[2], v.v[f[1]])
\* The earliest field (from 1) of Model n, in declaration order, that is bad
\* in v; 0 when none is.
EarliestBadField(n, v) ==
  IF \E i \in 1..Len(FieldsOf(n)) : FieldBad(n, v, i)
  THEN CHOOSE i \in 1..Len(FieldsOf(n)) :
         FieldBad(n, v, i) /\ \A j \in 1..(i - 1) : ~FieldBad(n, v, j)
  ELSE 0
\* The error of field i of Model n on v: not found, or what its node raises.
FieldError(n, v, i) ==
  LET f == FieldsOf(n)[i] IN
  IF f[1] \notin DOMAIN v.v
  THEN ValidationError("Model", <<"field '" \o f[1].v \o "' not found">>)
  ELSE validate(f[2], v.v[f[1]]).err
\* Model n reported on v the first violation in the order: mapping, entry
\* count, fields as declared (presence, then the field's node); the fields
\* after the one reported are as they were.
ReportsFirstViolation(n, v, r) ==
  IF ~isinstance(v, "Mapping")
  THEN /\ r.st = "ValidationError"
       /\ r.err = ValidationError("Model", wrong_type(<<>>, "'Mapping'",
                                                      "'" \o typename(v) \o "'"))
  ELSE IF PyLen(v) # Len(FieldsOf(n))
  THEN /\ r.st = "ValidationError"
       /\ r.err.spec = "invalid value for Model"
       /\ r.err = ModelLenCheck(n, v)
  ELSE LET i == EarliestBadField(n, v) IN
       i # 0 =>
         /\ r.st # "ok"
         /\ r.err = FieldError(n, v, i)
         /\ \A j \in (i + 1)..Len(FieldsOf(n)) :
              LET f == FieldsOf(n)[j][1] IN
              f \in DOMAIN v.v => r.obj.v[f] = v.v[f]

\* C11: Model.validate checks the mapping, then the entry count, then the
\* fields in declaration order (presence, then the field node's validate) and
\* stops at the first violation: the error raised is the one of the earliest
\* bad field, and no later field is touched.
C11_FirstViolationReported ==
  (Validated /\ node.k = "Model") => ReportsFirstViolation(node, before, out)

\* C11 on the mappings that take item assignment: there the order holds.
C11_OnDicts ==
  (Validated /\ node.k = "Model" /\ before.k # "mappingproxy")
    => ReportsFirstViolation(node, before, out)

====
